---- MODULE Spec2Model ----
(***************************************************************************)
(* A model of CorePulse's Entity-Component-System core:                    *)
(*   EntityManager   (include/Entity.h, src/Entity.cpp)                    *)
(*   ComponentArray / ComponentManager (include/Component.h)               *)
(*   SystemManager   (include/System.h)                                    *)
(*   World           (include/World.h, src/World.cpp)                      *)
(*                                                                         *)
(* A Signature (uint32_t bitmask) is modelled as the set of its set bit    *)
(* positions; 1 << t is {t}, | is \cup, & ~ is \, & is \cap.               *)
(***************************************************************************)
EXTENDS Integers, Sequences, FiniteSets

\* ------------------------------------------------------------------ bounds
\* MAX_ENTITIES of include/Entity.h:17 (10000 there), scaled down.
MAX_ENTITIES == 3
\* Payload values handed to ComponentArray::insert_data are 1..MaxPayload.
MaxPayload == 2
\* Payload values handed to World::add_component are 1..MaxWorldPayload.
MaxWorldPayload == 1
\* entities_created_ is a size_t that only grows; creation is capped here.
MaxCreates == 3
\* The number of World calls the caller makes.
MaxCalls == 6
\* The delta_time values handed to World::update are 1..MaxDeltaTime.
MaxDeltaTime == 2
\* The width of a Signature in bits (32 in the source).
MAX_COMPONENTS == 2
\* The nesting of World calls made from hooks that the stack holds.
MaxDepth == 3

\* --------------------------------------------------------------- constants
NULL_ENTITY == 0
\* A default-constructed payload T{} (the value-initialised component_array_).
DefaultPayload == 0

\* Entity is uint32_t: callers may pass any value; 0 is the null entity and
\* MAX_ENTITIES stands for every out-of-range value.
Entities == 0..MAX_ENTITIES
\* The identifiers the constructor puts in the free list.
EntityIds == 1..(MAX_ENTITIES - 1)
Payloads == 1..MaxPayload
WorldPayloads == 1..MaxWorldPayload
\* The component payload types and the system types of the program
\* (template arguments, keyed by typeid(T).name()).
Types == {"A", "B"}
Systems == {"S1"}
\* The Signature values a caller passes to set_system_signature.
Signatures == SUBSET (0..(Cardinality(Types) - 1))
HookKinds == {"entity_added", "entity_removed"}
\* The system types of the program; those of Systems are the ones whose
\* membership the World specifications follow.
SystemTypes == Systems \cup {"S2"}
\* One component kind more than a Signature has bits.
TypeNames == <<"A", "B", "C", "D">>
MaskTypes == {TypeNames[i] : i \in 1..(MAX_COMPONENTS + 1)}
LifecycleKinds == {"init", "update", "shutdown"}
DeltaTimes == 1..MaxDeltaTime
\* The payload types World::register_core_components registers, in order
\* (six there).
CoreComponents == <<"A">>

VARIABLES
    \* EntityManager; signatures_ is a std::array the constructor leaves
    \* uninitialised: its DOMAIN is the set of slots written so far
    available_entities_, signatures_, living_entity_count_, entities_created_,
    \* ComponentManager
    component_types_, next_component_type_, component_arrays_,
    \* SystemManager
    systems_, system_signatures_, entities,
    \* an out-of-bounds store to a component_array_ has happened
    ub,
    \* the number of World calls made so far
    calls,
    \* observation of the last call: its name, its Entity argument and that
    \* Entity's signature before the call (see Call), the Entity it returned
    \* (NULL_ENTITY after a call that returns nothing), whether it threw, and
    \* how often it invoked each hook of each system
    last, ret, thrown, hooks,
    \* observation: what a hook invoked by the last call finds when it runs
    \* (see HookView); NoView when the call invoked no hook
    seen,
    \* observation: what the last call returned when it is a read (see
    \* World_get_component, World_has_component, World_get_component_type);
    \* NoAnswer after any other call
    answer,
    \* World::initialized_
    initialized_,
    \* observation: how often the last call invoked init(), update(dt) and
    \* shutdown() on each system, and the dt it passed (NoCalls when none)
    delivered,
    \* observation: for each system, which of init() and shutdown() it
    \* received last ("none" at first)
    phase,
    \* observation: the entities destroyed while alive since the last
    \* create_entity call that returned an entity, oldest first
    destroyed,
    \* what the entity_added and entity_removed overrides of each system type
    \* do with the entity they are called for
    hook_bodies,
    \* observation: how many create_entity calls returned a non-null Entity and
    \* how many destroy_entity calls were applied to an alive Entity
    tally

emVars == <<available_entities_, signatures_, living_entity_count_, entities_created_>>
cmVars == <<component_types_, next_component_type_, component_arrays_>>
smVars == <<systems_, system_signatures_, entities>>
vars == <<emVars, cmVars, smVars, ub, calls, last, ret, thrown, hooks, seen, answer,
          initialized_, delivered, phase, tally, destroyed, hook_bodies>>

\* ------------------------------------------------------------ helpers
Range(s) == {s[i] : i \in DOMAIN s}
Back(s) == s[Len(s)]
PopBack(s) == SubSeq(s, 1, Len(s) - 1)
\* f with key k bound to v (std::unordered_map operator[] assignment)
MapPut(f, k, v) == [x \in (DOMAIN f) \cup {k} |-> IF x = k THEN v ELSE f[x]]
\* f without key k (std::unordered_map::erase)
MapErase(f, k) == [x \in (DOMAIN f) \ {k} |-> f[x]]
EmptyMap == [x \in {} |-> 0]
NoHooks == [h \in HookKinds \X Systems \X Entities |-> 0]
NoCalls == [count |-> [c \in LifecycleKinds \X SystemTypes |-> 0], delta_time |-> 0]
\* A hook that does nothing (System::entity_added, System::entity_removed).
NoBody == [op |-> "none", type |-> "A"]
NoBodies == [h \in HookKinds \X SystemTypes |-> NoBody]
NoAnswer == [has |-> FALSE, payload |-> DefaultPayload, type |-> 0]
NoView == [valid |-> FALSE, signature |-> {}, holds |-> {}, payload |-> DefaultPayload]

\* ------------------------------------------------------- EntityManager
\* Mutant of is_valid: no test for the null entity and the range.
is_valid_no_range(entity) ==
    entity \notin Range(available_entities_)

\* EntityManager::is_valid
is_valid(entity) ==
    IF entity = NULL_ENTITY \/ entity >= MAX_ENTITIES
    THEN FALSE
    ELSE entity \notin Range(available_entities_)

\* EntityManager::get_signature
get_signature(entity) ==
    IF ~is_valid(entity) THEN {} ELSE signatures_[entity]

\* EntityManager::get_living_entity_count
get_living_entity_count == living_entity_count_

\* Mutant of EM_create_entity: the entity is returned without pop_back.
EM_create_entity_no_pop ==
    IF available_entities_ = <<>>
    THEN /\ ret' = NULL_ENTITY
         /\ UNCHANGED emVars
    ELSE LET entity == Back(available_entities_) IN
         /\ available_entities_' = available_entities_
         /\ living_entity_count_' = living_entity_count_ + 1
         /\ entities_created_' = entities_created_ + 1
         /\ signatures_' = MapPut(signatures_, entity, {})
         /\ ret' = entity

\* Mutant of EM_create_entity: the free list counts as exhausted with one
\* identifier left.
EM_create_entity_off_by_one ==
    IF Len(available_entities_) <= 1
    THEN /\ ret' = NULL_ENTITY
         /\ UNCHANGED emVars
    ELSE LET entity == Back(available_entities_) IN
         /\ available_entities_' = PopBack(available_entities_)
         /\ living_entity_count_' = living_entity_count_ + 1
         /\ entities_created_' = entities_created_ + 1
         /\ signatures_' = MapPut(signatures_, entity, {})
         /\ ret' = entity

\* Mutant of EM_create_entity: the free list is used first-in first-out.
EM_create_entity_fifo ==
    IF available_entities_ = <<>>
    THEN /\ ret' = NULL_ENTITY
         /\ UNCHANGED emVars
    ELSE LET entity == Head(available_entities_) IN
         /\ available_entities_' = Tail(available_entities_)
         /\ living_entity_count_' = living_entity_count_ + 1
         /\ entities_created_' = entities_created_ + 1
         /\ signatures_' = MapPut(signatures_, entity, {})
         /\ ret' = entity

\* EntityManager::create_entity: the state change and the returned Entity.
EM_create_entity ==
    IF available_entities_ = <<>>
    THEN /\ ret' = NULL_ENTITY
         /\ UNCHANGED emVars
    ELSE LET entity == Back(available_entities_) IN
         /\ available_entities_' = PopBack(available_entities_)
         /\ living_entity_count_' = living_entity_count_ + 1
         /\ entities_created_' = entities_created_ + 1
         /\ signatures_' = MapPut(signatures_, entity, {})
         /\ ret' = entity

\* Mutant of EM_destroy_entity: no is_valid check.
EM_destroy_entity_unchecked(entity) ==
    /\ signatures_' = MapPut(signatures_, entity, {})
    /\ available_entities_' = Append(available_entities_, entity)
    /\ living_entity_count_' = living_entity_count_ - 1
    /\ UNCHANGED entities_created_

\* Mutant of EM_destroy_entity: the identifier is pushed twice.
EM_destroy_entity_push_twice(entity) ==
    IF ~is_valid(entity)
    THEN UNCHANGED emVars
    ELSE /\ signatures_' = MapPut(signatures_, entity, {})
         /\ available_entities_' = Append(Append(available_entities_, entity), entity)
         /\ living_entity_count_' = living_entity_count_ - 1
         /\ UNCHANGED entities_created_

\* EntityManager::destroy_entity
EM_destroy_entity(entity) ==
    IF ~is_valid(entity)
    THEN UNCHANGED emVars
    ELSE /\ signatures_' = MapPut(signatures_, entity, {})
         /\ available_entities_' = Append(available_entities_, entity)
         /\ living_entity_count_' = living_entity_count_ - 1
         /\ UNCHANGED entities_created_

\* EntityManager::set_signature
EM_set_signature(entity, signature) ==
    IF ~is_valid(entity)
    THEN UNCHANGED signatures_
    ELSE signatures_' = MapPut(signatures_, entity, signature)

\* ------------------------------------------------------ ComponentArray<T>
\* A freshly constructed ComponentArray<T>.
EmptyArray ==
    [entity_to_index_map_ |-> EmptyMap,
     index_to_entity_map_ |-> EmptyMap,
     component_array_ |-> [i \in 0..(MAX_ENTITIES - 1) |-> DefaultPayload],
     size_ |-> 0]

\* ComponentArray::has_data
has_data(arr, entity) == entity \in DOMAIN arr.entity_to_index_map_

\* ComponentArray::get_data throws std::runtime_error
get_data_throws(arr, entity) == ~has_data(arr, entity)
\* ComponentArray::get_data, when it does not throw
get_data(arr, entity) ==
    arr.component_array_[arr.entity_to_index_map_[entity]]

\* ComponentArray::size
size(arr) == arr.size_

\* insert_data stores at component_array_[size_] with no bound check: with
\* size_ = MAX_ENTITIES the store is past the end of the std::array.
insert_overflows(arr, entity) ==
    ~has_data(arr, entity) /\ arr.size_ >= MAX_ENTITIES

\* ComponentArray::insert_data (the out-of-bounds store itself is not a
\* change of component_array_; see Corruptions)
insert_data(arr, entity, component) ==
    IF has_data(arr, entity)
    THEN LET index == arr.entity_to_index_map_[entity] IN
         [arr EXCEPT !.component_array_[index] = component]
    ELSE LET new_index == arr.size_ IN
         [entity_to_index_map_ |-> MapPut(arr.entity_to_index_map_, entity, new_index),
          index_to_entity_map_ |-> MapPut(arr.index_to_entity_map_, new_index, entity),
          component_array_ |->
              IF new_index < MAX_ENTITIES
              THEN [arr.component_array_ EXCEPT ![new_index] = component]
              ELSE arr.component_array_,
          size_ |-> arr.size_ + 1]

\* What an out-of-bounds store can leave behind: component_array_ is followed
\* in the object by entity_to_index_map_, whose head the store overwrites.
\* Either the map still answers as before, or its entries are lost.
Corruptions(arr) ==
    {arr, [arr EXCEPT !.entity_to_index_map_ = EmptyMap]}

\* Mutant of remove_data: the last payload is not copied into the vacated
\* slot.
remove_data_no_copy(arr, entity) ==
    IF ~has_data(arr, entity)
    THEN arr
    ELSE LET index_of_removed_entity == arr.entity_to_index_map_[entity]
             index_of_last_element == arr.size_ - 1
             entity_of_last_element == arr.index_to_entity_map_[index_of_last_element]
             e2i == MapPut(arr.entity_to_index_map_, entity_of_last_element,
                           index_of_removed_entity)
             i2e == MapPut(arr.index_to_entity_map_, index_of_removed_entity,
                           entity_of_last_element)
         IN  [entity_to_index_map_ |-> MapErase(e2i, entity),
              index_to_entity_map_ |-> MapErase(i2e, index_of_last_element),
              component_array_ |-> arr.component_array_,
              size_ |-> arr.size_ - 1]

\* ComponentArray::remove_data
remove_data(arr, entity) ==
    IF ~has_data(arr, entity)
    THEN arr
    ELSE LET index_of_removed_entity == arr.entity_to_index_map_[entity]
             index_of_last_element == arr.size_ - 1
             entity_of_last_element == arr.index_to_entity_map_[index_of_last_element]
             e2i == MapPut(arr.entity_to_index_map_, entity_of_last_element,
                           index_of_removed_entity)
             i2e == MapPut(arr.index_to_entity_map_, index_of_removed_entity,
                           entity_of_last_element)
         IN  [entity_to_index_map_ |-> MapErase(e2i, entity),
              index_to_entity_map_ |-> MapErase(i2e, index_of_last_element),
              component_array_ |->
                  [arr.component_array_ EXCEPT ![index_of_removed_entity] =
                      arr.component_array_[index_of_last_element]],
              size_ |-> arr.size_ - 1]

\* Mutant of entity_destroyed: the array ignores the notification.
entity_destroyed_ignored(arr, entity) == arr

\* ComponentArray::entity_destroyed
entity_destroyed(arr, entity) ==
    IF has_data(arr, entity) THEN remove_data(arr, entity) ELSE arr

\* ------------------------------------------------------- ComponentManager
\* component_types_.contains(type_name)
is_registered(T) == T \in DOMAIN component_types_

\* Mutant of CM_register_component: no test for an earlier registration.
CM_register_component_reset(T) ==
    /\ component_types_' = MapPut(component_types_, T, next_component_type_)
    /\ component_arrays_' = [component_arrays_ EXCEPT ![T] = EmptyArray]
    /\ next_component_type_' = next_component_type_ + 1

\* Mutant of CM_register_component: a kind beyond the width of a Signature
\* is not registered.
CM_register_component_capped(T) ==
    IF is_registered(T) \/ next_component_type_ >= MAX_COMPONENTS
    THEN UNCHANGED cmVars
    ELSE /\ component_types_' = MapPut(component_types_, T, next_component_type_)
         /\ component_arrays_' = [component_arrays_ EXCEPT ![T] = EmptyArray]
         /\ next_component_type_' = next_component_type_ + 1

\* ComponentManager::register_component<T>
CM_register_component(T) ==
    IF is_registered(T)
    THEN UNCHANGED cmVars
    ELSE /\ component_types_' = MapPut(component_types_, T, next_component_type_)
         /\ component_arrays_' = [component_arrays_ EXCEPT ![T] = EmptyArray]
         /\ next_component_type_' = next_component_type_ + 1

\* ComponentManager::get_component_type<T>, which registers T when needed:
\* the index T has after the call.
get_component_type(T) ==
    IF is_registered(T) THEN component_types_[T] ELSE next_component_type_

\* ComponentManager::get_component_array<T> (non-const): registers T when
\* needed; the registry after the call, and the array it returns.
CM_registry_after(T) ==
    /\ component_types_' =
          IF is_registered(T) THEN component_types_
          ELSE MapPut(component_types_, T, next_component_type_)
    /\ next_component_type_' =
          IF is_registered(T) THEN next_component_type_
          ELSE next_component_type_ + 1
get_component_array(T) ==
    IF is_registered(T) THEN component_arrays_[T] ELSE EmptyArray

\* ComponentManager::has_component<T> (const) throws std::runtime_error: the
\* const get_component_array<T> does, for a T that is not registered.
has_component_throws(T) == ~is_registered(T)
\* World::has_component<T>: true only when it returns true.
has_component(T, entity) ==
    ~has_component_throws(T) /\ has_data(component_arrays_[T], entity)

\* A call of insert_data on the array arr of T, out-of-bounds store included.
CA_insert_data(T, arr, entity, component) ==
    IF insert_overflows(arr, entity)
    THEN /\ \E c \in Corruptions(insert_data(arr, entity, component)) :
              component_arrays_' = [component_arrays_ EXCEPT ![T] = c]
         /\ ub' = TRUE
    ELSE /\ component_arrays_' =
              [component_arrays_ EXCEPT ![T] = insert_data(arr, entity, component)]
         /\ ub' = ub

\* ComponentManager::add_component<T>
CM_add_component(entity, T, component) ==
    /\ CM_registry_after(T)
    /\ CA_insert_data(T, get_component_array(T), entity, component)

\* ComponentManager::remove_component<T>
CM_remove_component(entity, T) ==
    /\ CM_registry_after(T)
    /\ component_arrays_' =
          [component_arrays_ EXCEPT ![T] = remove_data(get_component_array(T), entity)]

\* ComponentManager::entity_destroyed: every registered array is notified.
CM_entity_destroyed(entity) ==
    /\ component_arrays_' =
          [T \in Types |->
              IF is_registered(T)
              THEN entity_destroyed(component_arrays_[T], entity)
              ELSE component_arrays_[T]]
    /\ UNCHANGED <<component_types_, next_component_type_>>

\* ---------------------------------------------------------- SystemManager
\* signatures_[type] in entity_signature_changed: the bound signature, or the
\* value-initialised 0 for a system whose signature was never set.
system_signature(S) == system_signatures_[S]

\* Mutant of signature_matches: any shared bit counts as a match.
signature_matches_any(entity_signature, S) ==
    (entity_signature \cap system_signature(S)) # {}

\* The test of entity_signature_changed.
signature_matches(entity_signature, S) ==
    (entity_signature \cap system_signature(S)) = system_signature(S)

\* Mutant of SM_register_system: a second instance replaces the first.
SM_register_system_fresh(S) ==
    /\ systems_' = systems_ \cup {S}
    /\ entities' = [entities EXCEPT ![S] = {}]
    /\ UNCHANGED system_signatures_

\* SystemManager::register_system<T>
SM_register_system(S) ==
    IF S \in systems_
    THEN UNCHANGED smVars
    ELSE /\ systems_' = systems_ \cup {S}
         /\ UNCHANGED <<system_signatures_, entities>>

\* Mutant of SM_set_signature: no test for the registration of S.
SM_set_signature_unchecked(S, signature) ==
    /\ system_signatures_' = [system_signatures_ EXCEPT ![S] = signature]
    /\ thrown' = FALSE
    /\ UNCHANGED <<systems_, entities>>

\* SystemManager::set_signature<T>
SM_set_signature(S, signature) ==
    IF S \notin systems_
    THEN /\ thrown' = TRUE
         /\ UNCHANGED smVars
    ELSE /\ system_signatures_' = [system_signatures_ EXCEPT ![S] = signature]
         /\ thrown' = FALSE
         /\ UNCHANGED <<systems_, entities>>

\* SystemManager::entity_signature_changed: the membership set of S after it.
members_after_signature_changed(S, entity, entity_signature) ==
    IF signature_matches(entity_signature, S)
    THEN entities[S] \cup {entity}
    ELSE entities[S] \ {entity}

\* SystemManager::entity_signature_changed: how often it calls hook h.
hooks_of_signature_changed(h, entity, entity_signature) ==
    LET kind == h[1]
        S == h[2]
    IN  IF h[3] # entity \/ S \notin systems_ THEN 0
        ELSE IF signature_matches(entity_signature, S)
        THEN (IF kind = "entity_added" /\ entity \notin entities[S] THEN 1 ELSE 0)
        ELSE (IF kind = "entity_removed" /\ entity \in entities[S] THEN 1 ELSE 0)

SM_entity_signature_changed(entity, entity_signature) ==
    /\ entities' = [S \in Systems |->
          IF S \in systems_
          THEN members_after_signature_changed(S, entity, entity_signature)
          ELSE entities[S]]
    /\ hooks' = [h \in DOMAIN NoHooks |->
          hooks_of_signature_changed(h, entity, entity_signature)]
    /\ UNCHANGED <<systems_, system_signatures_>>

\* SystemManager::entity_destroyed: how often it calls hook h.
hooks_of_entity_destroyed(h, entity) ==
    IF h[1] = "entity_removed" /\ h[3] = entity /\ h[2] \in systems_
       /\ entity \in entities[h[2]]
    THEN 1 ELSE 0

\* SystemManager::entity_destroyed
SM_entity_destroyed(entity) ==
    /\ entities' = [S \in Systems |->
          IF S \in systems_ THEN entities[S] \ {entity} ELSE entities[S]]
    /\ hooks' = [h \in DOMAIN NoHooks |-> hooks_of_entity_destroyed(h, entity)]
    /\ UNCHANGED <<systems_, system_signatures_>>

\* ------------------------------------------------------------------ World
\* The record of a call: its name, its Entity argument (NULL_ENTITY when it
\* has none) and get_signature of that Entity before the call.
Call(op, entity) ==
    [op |-> op, entity |-> entity, before |-> get_signature(entity)]

\* The tally after a create_entity call that returns r.
tally_create(r) ==
    IF r # NULL_ENTITY THEN [tally EXCEPT !.creates = @ + 1] ELSE tally
\* The tally after a destroy_entity(entity) call.
tally_destroy(entity) ==
    IF is_valid(entity) THEN [tally EXCEPT !.destroys = @ + 1] ELSE tally

\* The payload get_component<T>(entity) returns, DefaultPayload when it throws.
payload_of(T, entity) ==
    IF is_registered(T) /\ has_data(component_arrays_[T], entity)
    THEN get_data(component_arrays_[T], entity)
    ELSE DefaultPayload

\* What System::entity_added / entity_removed finds for entity when it runs:
\* is_valid(entity), get_signature(entity), the kind indexes whose arrays hold
\* entity, and the payload of the kind the call is about.
HookView(entity, payload) ==
    [valid |-> is_valid(entity),
     signature |-> get_signature(entity),
     holds |-> {component_types_[U] : U \in {V \in DOMAIN component_types_ :
                                                has_data(component_arrays_[V], entity)}},
     payload |-> payload]

\* The destroyed entities on record after a create_entity call that returns r.
destroyed_after_create(r) ==
    IF r # NULL_ENTITY THEN <<>> ELSE destroyed
\* The destroyed entities on record after a destroy_entity(entity) call.
destroyed_after_destroy(entity) ==
    IF is_valid(entity) THEN Append(destroyed, entity) ELSE destroyed

\* The Signature values that (1 << type) can be: bit type of the
\* MAX_COMPONENTS-bit word; for type >= MAX_COMPONENTS the shift count is not
\* less than the width of the word, and the build either reduces the count
\* modulo the width (the bit of another kind) or yields 0 (no bit).
shifted(type) ==
    IF type < MAX_COMPONENTS THEN {{type}}
    ELSE {{type % MAX_COMPONENTS}, {}}

\* World::create_entity
create_entity ==
    /\ ~ub
    /\ calls < MaxCalls
    /\ calls' = calls + 1
    /\ available_entities_ # <<>> => entities_created_ < MaxCreates
    /\ EM_create_entity
    /\ tally' = tally_create(ret')
    /\ destroyed' = destroyed_after_create(ret')
    /\ UNCHANGED hook_bodies
    /\ thrown' = FALSE
    /\ delivered' = NoCalls
    /\ UNCHANGED <<initialized_, phase>>
    /\ answer' = NoAnswer
    /\ last' = Call("create_entity", NULL_ENTITY)
    /\ hooks' = NoHooks
    /\ seen' = NoView
    /\ UNCHANGED <<cmVars, smVars, ub>>

\* Mutant of destroy_entity: no is_valid test, in World or EntityManager.
destroy_entity_unchecked(entity) ==
    /\ ~ub
    /\ calls < MaxCalls
    /\ calls' = calls + 1
    /\ last' = Call("destroy_entity", entity)
    /\ ret' = NULL_ENTITY
    /\ thrown' = FALSE
    /\ delivered' = NoCalls
    /\ UNCHANGED <<initialized_, phase>>
    /\ answer' = NoAnswer
    /\ tally' = tally_destroy(entity)
    /\ destroyed' = destroyed_after_destroy(entity)
    /\ UNCHANGED hook_bodies
    /\ EM_destroy_entity_unchecked(entity)
    /\ CM_entity_destroyed(entity)
    /\ SM_entity_destroyed(entity)
    /\ seen' = NoView
    /\ UNCHANGED ub

\* World::destroy_entity
destroy_entity(entity) ==
    /\ ~ub
    /\ calls < MaxCalls
    /\ calls' = calls + 1
    /\ last' = Call("destroy_entity", entity)
    /\ ret' = NULL_ENTITY
    /\ thrown' = FALSE
    /\ delivered' = NoCalls
    /\ UNCHANGED <<initialized_, phase>>
    /\ answer' = NoAnswer
    /\ tally' = tally_destroy(entity)
    /\ destroyed' = destroyed_after_destroy(entity)
    /\ UNCHANGED hook_bodies
    /\ IF ~is_valid(entity)
       THEN /\ hooks' = NoHooks
            /\ seen' = NoView
            /\ UNCHANGED <<emVars, cmVars, smVars, ub>>
       ELSE /\ EM_destroy_entity(entity)
            /\ CM_entity_destroyed(entity)
            /\ SM_entity_destroyed(entity)
            /\ seen' = IF hooks' = NoHooks THEN NoView
                       ELSE HookView(entity, DefaultPayload)'
            /\ UNCHANGED ub

\* World::register_component<T>
register_component(T) ==
    /\ ~ub
    /\ calls < MaxCalls
    /\ calls' = calls + 1
    /\ last' = Call("register_component", NULL_ENTITY)
    /\ ret' = NULL_ENTITY
    /\ thrown' = FALSE
    /\ delivered' = NoCalls
    /\ UNCHANGED <<initialized_, phase>>
    /\ answer' = NoAnswer
    /\ hooks' = NoHooks
    /\ seen' = NoView
    /\ CM_register_component(T)
    /\ UNCHANGED <<emVars, smVars, ub, tally, destroyed, hook_bodies>>

\* World::add_component<T>
add_component(entity, T, component) ==
    /\ ~ub
    /\ calls < MaxCalls
    /\ calls' = calls + 1
    /\ last' = Call("add_component", entity)
    /\ ret' = NULL_ENTITY
    /\ thrown' = FALSE
    /\ delivered' = NoCalls
    /\ UNCHANGED <<initialized_, phase>>
    /\ answer' = NoAnswer
    /\ CM_add_component(entity, T, component)
    /\ \E bit \in shifted(get_component_type(T)) :
          LET signature == get_signature(entity) \cup bit IN
          /\ EM_set_signature(entity, signature)
          /\ SM_entity_signature_changed(entity, signature)
    /\ UNCHANGED <<available_entities_, living_entity_count_, entities_created_, tally, destroyed, hook_bodies>>
    \* after an out-of-bounds store what a hook finds is not defined
    /\ seen' = IF hooks' = NoHooks \/ ub' THEN NoView
               ELSE HookView(entity, payload_of(T, entity))'

\* World::remove_component<T>
remove_component(entity, T) ==
    /\ ~ub
    /\ calls < MaxCalls
    /\ calls' = calls + 1
    /\ last' = Call("remove_component", entity)
    /\ ret' = NULL_ENTITY
    /\ thrown' = FALSE
    /\ delivered' = NoCalls
    /\ UNCHANGED <<initialized_, phase>>
    /\ answer' = NoAnswer
    /\ CM_remove_component(entity, T)
    /\ \E bit \in shifted(get_component_type(T)) :
          LET signature == get_signature(entity) \ bit IN
          /\ EM_set_signature(entity, signature)
          /\ SM_entity_signature_changed(entity, signature)
    /\ UNCHANGED <<available_entities_, living_entity_count_, entities_created_, ub, tally, destroyed, hook_bodies>>
    /\ seen' = IF hooks' = NoHooks THEN NoView ELSE HookView(entity, payload_of(T, entity))'

\* World::register_system<T>
register_system(S) ==
    /\ ~ub
    /\ calls < MaxCalls
    /\ calls' = calls + 1
    /\ last' = Call("register_system", NULL_ENTITY)
    /\ ret' = NULL_ENTITY
    /\ thrown' = FALSE
    /\ delivered' = NoCalls
    /\ UNCHANGED <<initialized_, phase>>
    /\ answer' = NoAnswer
    /\ hooks' = NoHooks
    /\ seen' = NoView
    /\ SM_register_system(S)
    /\ UNCHANGED <<emVars, cmVars, ub, tally, destroyed, hook_bodies>>

\* World::set_system_signature<T>
set_system_signature(S, signature) ==
    /\ ~ub
    /\ calls < MaxCalls
    /\ calls' = calls + 1
    /\ last' = Call("set_system_signature", NULL_ENTITY)
    /\ hooks' = NoHooks
    /\ seen' = NoView
    /\ ret' = NULL_ENTITY
    /\ SM_set_signature(S, signature)
    /\ delivered' = NoCalls
    /\ UNCHANGED <<initialized_, phase>>
    /\ answer' = NoAnswer
    /\ UNCHANGED <<emVars, cmVars, ub, tally, destroyed, hook_bodies>>

\* The state World::World() constructs.
Init ==
    /\ available_entities_ = [i \in 1..(MAX_ENTITIES - 1) |-> i]
    /\ signatures_ = EmptyMap
    /\ living_entity_count_ = 0
    /\ entities_created_ = 0
    /\ component_types_ = EmptyMap
    /\ next_component_type_ = 0
    /\ component_arrays_ = [T \in Types |-> EmptyArray]
    /\ systems_ = {}
    /\ system_signatures_ = [S \in Systems |-> {}]
    /\ entities = [S \in Systems |-> {}]
    /\ ub = FALSE
    /\ calls = 0
    /\ last = [op |-> "World", entity |-> NULL_ENTITY, before |-> {}]
    /\ ret = NULL_ENTITY
    /\ thrown = FALSE
    /\ hooks = NoHooks
    /\ seen = NoView
    /\ answer = NoAnswer
    /\ initialized_ = FALSE
    /\ destroyed = <<>>
    /\ hook_bodies = NoBodies
    /\ delivered = NoCalls
    /\ phase = [S \in SystemTypes |-> "none"]
    /\ tally = [creates |-> 0, destroys |-> 0]

Next ==
    \/ create_entity
    \/ \E e \in Entities : destroy_entity(e)
    \/ \E T \in Types : register_component(T)
    \/ \E e \in Entities, T \in Types, v \in WorldPayloads : add_component(e, T, v)
    \/ \E e \in Entities, T \in Types : remove_component(e, T)
    \/ \E S \in Systems : register_system(S)
    \/ \E S \in Systems, sig \in Signatures : set_system_signature(S, sig)

Spec == Init /\ [][Next]_vars

\* ------------------------------------------------ World with its reads
\* World::get_component<T>: both overloads reach the non-const
\* ComponentManager::get_component<T>, whose get_component_array<T> registers
\* T when needed before get_data reads or throws.
World_get_component(entity, T) ==
    /\ ~ub
    /\ calls < MaxCalls
    /\ calls' = calls + 1
    /\ last' = Call("get_component", entity)
    /\ ret' = NULL_ENTITY
    /\ hooks' = NoHooks
    /\ seen' = NoView
    /\ CM_registry_after(T)
    /\ component_arrays_' = [component_arrays_ EXCEPT ![T] = get_component_array(T)]
    /\ thrown' = get_data_throws(get_component_array(T), entity)
    /\ delivered' = NoCalls
    /\ UNCHANGED <<initialized_, phase>>
    /\ answer' = [NoAnswer EXCEPT !.payload = payload_of(T, entity)]
    /\ UNCHANGED <<emVars, smVars, ub, tally, destroyed, hook_bodies>>

\* World::has_component<T>: the const ComponentManager::has_component<T>.
World_has_component(entity, T) ==
    /\ ~ub
    /\ calls < MaxCalls
    /\ calls' = calls + 1
    /\ last' = Call("has_component", entity)
    /\ ret' = NULL_ENTITY
    /\ hooks' = NoHooks
    /\ seen' = NoView
    /\ thrown' = has_component_throws(T)
    /\ delivered' = NoCalls
    /\ UNCHANGED <<initialized_, phase>>
    /\ answer' = [NoAnswer EXCEPT !.has = has_component(T, entity)]
    /\ UNCHANGED <<emVars, cmVars, smVars, ub, tally, destroyed, hook_bodies>>

\* World::get_component_type<T>
World_get_component_type(T) ==
    /\ ~ub
    /\ calls < MaxCalls
    /\ calls' = calls + 1
    /\ last' = Call("get_component_type", NULL_ENTITY)
    /\ ret' = NULL_ENTITY
    /\ hooks' = NoHooks
    /\ seen' = NoView
    /\ CM_register_component(T)
    /\ thrown' = FALSE
    /\ delivered' = NoCalls
    /\ UNCHANGED <<initialized_, phase>>
    /\ answer' = [NoAnswer EXCEPT !.type = get_component_type(T)]
    /\ UNCHANGED <<emVars, smVars, ub, tally, destroyed, hook_bodies>>

NextReads ==
    \/ Next
    \/ \E e \in Entities, T \in Types : World_get_component(e, T)
    \/ \E e \in Entities, T \in Types : World_has_component(e, T)
    \/ \E T \in Types : World_get_component_type(T)

SpecReads == Init /\ [][NextReads]_vars

\* ------------------------------------------------- World's lifecycle
\* ComponentManager::register_component<T> on a registry given as a record.
registered_with(reg, T) ==
    IF T \in DOMAIN reg.component_types_
    THEN reg
    ELSE [component_types_ |-> MapPut(reg.component_types_, T, reg.next_component_type_),
          component_arrays_ |-> [reg.component_arrays_ EXCEPT ![T] = EmptyArray],
          next_component_type_ |-> reg.next_component_type_ + 1]

RECURSIVE registered_with_all(_, _)
registered_with_all(reg, types) ==
    IF types = <<>> THEN reg
    ELSE registered_with_all(registered_with(reg, Head(types)), Tail(types))

\* World::register_core_components
register_core_components ==
    LET reg == registered_with_all(
                   [component_types_ |-> component_types_,
                    component_arrays_ |-> component_arrays_,
                    next_component_type_ |-> next_component_type_],
                   CoreComponents)
    IN  /\ component_types_' = reg.component_types_
        /\ component_arrays_' = reg.component_arrays_
        /\ next_component_type_' = reg.next_component_type_

\* One call of kind on every system of systems_, whatever the order.
fan_out(kind, delta_time) ==
    [count |-> [c \in LifecycleKinds \X SystemTypes |->
                   IF c[1] = kind /\ c[2] \in systems_ THEN 1 ELSE 0],
     delta_time |-> delta_time]

\* SystemManager::init_all_systems
init_all_systems == fan_out("init", 0)

\* Mutant of update_all_systems: only one of the systems is updated.
update_all_systems_one(delta_time) ==
    [count |-> [c \in LifecycleKinds \X SystemTypes |->
                   IF c[1] = "update" /\ systems_ # {}
                      /\ c[2] = (CHOOSE S \in systems_ : TRUE)
                   THEN 1 ELSE 0],
     delta_time |-> delta_time]

\* SystemManager::update_all_systems
update_all_systems(delta_time) == fan_out("update", delta_time)

\* SystemManager::shutdown_all_systems
shutdown_all_systems == fan_out("shutdown", 0)

\* World::init
init ==
    /\ ~ub
    /\ calls < MaxCalls
    /\ calls' = calls + 1
    /\ last' = Call("init", NULL_ENTITY)
    /\ ret' = NULL_ENTITY
    /\ thrown' = FALSE
    /\ hooks' = NoHooks
    /\ seen' = NoView
    /\ answer' = NoAnswer
    /\ IF initialized_
       THEN /\ delivered' = NoCalls
            /\ UNCHANGED <<cmVars, initialized_, phase>>
       ELSE /\ register_core_components
            /\ delivered' = init_all_systems
            /\ phase' = [S \in SystemTypes |->
                            IF S \in systems_ THEN "init" ELSE phase[S]]
            /\ initialized_' = TRUE
    /\ UNCHANGED <<emVars, smVars, ub, tally, destroyed, hook_bodies>>

\* World::shutdown
shutdown ==
    /\ ~ub
    /\ calls < MaxCalls
    /\ calls' = calls + 1
    /\ last' = Call("shutdown", NULL_ENTITY)
    /\ ret' = NULL_ENTITY
    /\ thrown' = FALSE
    /\ hooks' = NoHooks
    /\ seen' = NoView
    /\ answer' = NoAnswer
    /\ IF ~initialized_
       THEN /\ delivered' = NoCalls
            /\ UNCHANGED <<initialized_, phase>>
       ELSE /\ delivered' = shutdown_all_systems
            /\ phase' = [S \in SystemTypes |->
                            IF S \in systems_ THEN "shutdown" ELSE phase[S]]
            /\ initialized_' = FALSE
    /\ UNCHANGED <<emVars, cmVars, smVars, ub, tally, destroyed, hook_bodies>>

\* World::update
update(delta_time) ==
    /\ ~ub
    /\ calls < MaxCalls
    /\ calls' = calls + 1
    /\ last' = Call("update", NULL_ENTITY)
    /\ ret' = NULL_ENTITY
    /\ thrown' = FALSE
    /\ hooks' = NoHooks
    /\ seen' = NoView
    /\ answer' = NoAnswer
    /\ delivered' = IF ~initialized_ THEN NoCalls ELSE update_all_systems(delta_time)
    /\ UNCHANGED <<emVars, cmVars, smVars, ub, tally, destroyed, hook_bodies, initialized_, phase>>

\* The calls of World's lifecycle, with any system type registered at any
\* time.
NextLifecycle ==
    \/ \E S \in SystemTypes : register_system(S)
    \/ init
    \/ shutdown
    \/ \E dt \in DeltaTimes : update(dt)

SpecLifecycle == Init /\ [][NextLifecycle]_vars

\* ------------------------------------------- EntityManager taken alone
\* The EntityManager's own interface, called with any arguments.
EntityManagerCreate ==
    /\ available_entities_ # <<>> => entities_created_ < MaxCreates
    /\ EM_create_entity
    /\ tally' = tally_create(ret')
    /\ destroyed' = destroyed_after_create(ret')
    /\ UNCHANGED hook_bodies
    /\ thrown' = FALSE
    /\ delivered' = NoCalls
    /\ UNCHANGED <<initialized_, phase>>
    /\ answer' = NoAnswer
    /\ last' = Call("create_entity", NULL_ENTITY)
    /\ UNCHANGED <<cmVars, smVars, ub, calls, hooks, seen>>

EntityManagerDestroy(entity) ==
    /\ EM_destroy_entity(entity)
    /\ tally' = tally_destroy(entity)
    /\ destroyed' = destroyed_after_destroy(entity)
    /\ UNCHANGED hook_bodies
    /\ last' = Call("destroy_entity", entity)
    /\ ret' = NULL_ENTITY
    /\ thrown' = FALSE
    /\ delivered' = NoCalls
    /\ UNCHANGED <<initialized_, phase>>
    /\ answer' = NoAnswer
    /\ UNCHANGED <<cmVars, smVars, ub, calls, hooks, seen>>

EntityManagerSetSignature(entity, signature) ==
    /\ EM_set_signature(entity, signature)
    /\ last' = Call("set_signature", entity)
    /\ ret' = NULL_ENTITY
    /\ thrown' = FALSE
    /\ delivered' = NoCalls
    /\ UNCHANGED <<initialized_, phase>>
    /\ answer' = NoAnswer
    /\ UNCHANGED <<available_entities_, living_entity_count_, entities_created_,
                   cmVars, smVars, ub, calls, hooks, seen, tally, destroyed, hook_bodies>>

NextEntity ==
    \/ EntityManagerCreate
    \/ \E e \in Entities : EntityManagerDestroy(e)
    \/ \E e \in Entities, sig \in Signatures : EntityManagerSetSignature(e, sig)

SpecEntity == Init /\ [][NextEntity]_vars

\* ----------------------------------------- one ComponentArray<T> taken alone
\* The array of this type is driven through ComponentArray's own interface.
ArrayType == "A"
TheArray == component_arrays_[ArrayType]

ArrayInsert(entity, component) ==
    /\ ~ub
    /\ CA_insert_data(ArrayType, TheArray, entity, component)
    /\ last' = Call("insert_data", entity)
    /\ ret' = NULL_ENTITY
    /\ thrown' = FALSE
    /\ delivered' = NoCalls
    /\ UNCHANGED <<initialized_, phase>>
    /\ answer' = NoAnswer
    /\ UNCHANGED <<emVars, component_types_, next_component_type_, smVars,
                   calls, hooks, seen, tally, destroyed, hook_bodies>>

ArrayRemove(entity) ==
    /\ ~ub
    /\ component_arrays_' =
          [component_arrays_ EXCEPT ![ArrayType] = remove_data(TheArray, entity)]
    /\ last' = Call("remove_data", entity)
    /\ ret' = NULL_ENTITY
    /\ thrown' = FALSE
    /\ delivered' = NoCalls
    /\ UNCHANGED <<initialized_, phase>>
    /\ answer' = NoAnswer
    /\ UNCHANGED <<emVars, component_types_, next_component_type_, smVars,
                   ub, calls, hooks, seen, tally, destroyed, hook_bodies>>

ArrayEntityDestroyed(entity) ==
    /\ ~ub
    /\ component_arrays_' =
          [component_arrays_ EXCEPT ![ArrayType] = entity_destroyed(TheArray, entity)]
    /\ last' = Call("entity_destroyed", entity)
    /\ ret' = NULL_ENTITY
    /\ thrown' = FALSE
    /\ delivered' = NoCalls
    /\ UNCHANGED <<initialized_, phase>>
    /\ answer' = NoAnswer
    /\ UNCHANGED <<emVars, component_types_, next_component_type_, smVars,
                   ub, calls, hooks, seen, tally, destroyed, hook_bodies>>

NextArray ==
    \/ \E e \in Entities, v \in Payloads : ArrayInsert(e, v)
    \/ \E e \in Entities : ArrayRemove(e)
    \/ \E e \in Entities : ArrayEntityDestroyed(e)

SpecArray == Init /\ [][NextArray]_vars

\* ==================================================== re-entrant hooks
\* The World with system types whose entity_added and entity_removed
\* overrides call World::add_component or World::remove_component on the
\* entity they are called for. A call is computed on a record of the fields
\* it changes; ub records that the nesting exceeded MaxDepth (the hooks call
\* each other without end and the stack is exhausted).
TheWorld ==
    [signatures_ |-> signatures_,
     component_types_ |-> component_types_,
     next_component_type_ |-> next_component_type_,
     component_arrays_ |-> component_arrays_,
     entities |-> entities,
     hooks |-> [h \in HookKinds \X SystemTypes \X Entities |-> 0],
     ub |-> FALSE]

\* The component kinds the hooks add and remove.
HookTypes == {"A"}
\* The overrides of a hook: nothing, or one add_component or remove_component
\* call on the entity the hook is called for.
HookBodies ==
    {NoBody} \cup [op : {"add_component", "remove_component"}, type : HookTypes]

\* ComponentManager::get_component_array<T> on the record: T registered.
W_registered(w, T) ==
    IF T \in DOMAIN w.component_types_ THEN w
    ELSE [w EXCEPT !.component_types_ = MapPut(@, T, w.next_component_type_),
                   !.next_component_type_ = @ + 1]

\* ComponentManager::add_component<T> / remove_component<T> on the record.
W_stored(w, op, T, entity) ==
    LET r == W_registered(w, T)
        arr == r.component_arrays_[T]
    IN  [r EXCEPT !.component_arrays_[T] =
            IF op = "add_component"
            THEN insert_data(arr, entity, DefaultPayload)
            ELSE remove_data(arr, entity)]

\* The signature World::add_component / remove_component computes.
W_signature(w, op, T, entity) ==
    LET old == IF is_valid(entity) THEN w.signatures_[entity] ELSE {}
        \* the kinds of Types have types below MAX_COMPONENTS: one outcome
        bit == CHOOSE b \in shifted(w.component_types_[T]) : TRUE
    IN  IF op = "add_component" THEN old \cup bit ELSE old \ bit

\* EntityManager::set_signature on the record.
W_set_signature(w, entity, signature) ==
    IF ~is_valid(entity) THEN w
    ELSE [w EXCEPT !.signatures_ = MapPut(@, entity, signature)]

RECURSIVE W_component(_, _, _, _, _, _)
RECURSIVE W_entity_signature_changed(_, _, _, _, _, _)

\* One call of a hook of system S: its body runs one level deeper.
W_hook(w, order, kind, S, entity, depth) ==
    LET body == hook_bodies[<<kind, S>>]
        called == [w EXCEPT !.hooks[<<kind, S, entity>>] = @ + 1]
    IN  IF body.op = "none" THEN called
        ELSE W_component(called, order, body.op, body.type, entity, depth + 1)

\* SystemManager::entity_signature_changed: the loop over the systems in rest
\* (the rest of the iteration order), with entity_signature as it was passed
\* by value when the loop started.
W_entity_signature_changed(w, order, rest, entity, entity_signature, depth) ==
    IF rest = <<>> \/ w.ub THEN w
    ELSE LET S == Head(rest)
             matches == signature_matches(entity_signature, S)
             member == entity \in w.entities[S]
             step ==
                IF matches /\ ~member
                THEN W_hook([w EXCEPT !.entities[S] = @ \cup {entity}],
                            order, "entity_added", S, entity, depth)
                ELSE IF ~matches /\ member
                THEN W_hook([w EXCEPT !.entities[S] = @ \ {entity}],
                            order, "entity_removed", S, entity, depth)
                ELSE w
         IN  W_entity_signature_changed(step, order, Tail(rest), entity,
                                        entity_signature, depth)

\* World::add_component<T> / World::remove_component<T> at nesting depth.
W_component(w, order, op, T, entity, depth) ==
    IF depth > MaxDepth THEN [w EXCEPT !.ub = TRUE]
    ELSE LET stored == W_stored(w, op, T, entity)
             signature == W_signature(stored, op, T, entity)
         IN  W_entity_signature_changed(W_set_signature(stored, entity, signature),
                                        order, order, entity, signature, depth)

\* The orders in which the unordered_map systems_ can be iterated.
IterationOrders ==
    {o \in UNION {[1..n -> systems_] : n \in 0..Cardinality(SystemTypes)} :
        /\ Len(o) = Cardinality(systems_)
        /\ Range(o) = systems_}

\* World::register_system<S> for a system type S with the given hooks.
register_system_with_hooks(S, on_entity_added, on_entity_removed) ==
    /\ ~ub
    /\ calls < MaxCalls
    /\ calls' = calls + 1
    /\ last' = Call("register_system", NULL_ENTITY)
    /\ ret' = NULL_ENTITY
    /\ thrown' = FALSE
    /\ delivered' = NoCalls
    /\ UNCHANGED <<initialized_, phase>>
    /\ answer' = NoAnswer
    /\ SM_register_system(S)
    /\ hook_bodies' =
          IF S \in systems_ THEN hook_bodies
          ELSE [hook_bodies EXCEPT ![<<"entity_added", S>>] = on_entity_added,
                                   ![<<"entity_removed", S>>] = on_entity_removed]
    /\ hooks' = NoHooks
    /\ seen' = NoView
    /\ UNCHANGED <<emVars, cmVars, ub, tally, destroyed>>

\* World::add_component<T> / World::remove_component<T> on an alive entity,
\* the calls its hooks make included.
component_call(op, entity, T) ==
    /\ ~ub
    /\ calls < MaxCalls
    /\ is_valid(entity)
    /\ calls' = calls + 1
    /\ last' = Call(op, entity)
    /\ ret' = NULL_ENTITY
    /\ thrown' = FALSE
    /\ delivered' = NoCalls
    /\ UNCHANGED <<initialized_, phase>>
    /\ answer' = NoAnswer
    /\ \E order \in IterationOrders :
          LET w == W_component(TheWorld, order, op, T, entity, 0) IN
          /\ signatures_' = w.signatures_
          /\ component_types_' = w.component_types_
          /\ next_component_type_' = w.next_component_type_
          /\ component_arrays_' = w.component_arrays_
          /\ entities' = w.entities
          /\ hooks' = w.hooks
          /\ ub' = w.ub
    /\ seen' = NoView
    /\ UNCHANGED <<available_entities_, living_entity_count_, entities_created_,
                   systems_, system_signatures_, tally, destroyed, hook_bodies>>

InitReentrant ==
    /\ available_entities_ = [i \in 1..(MAX_ENTITIES - 1) |-> i]
    /\ signatures_ = EmptyMap
    /\ living_entity_count_ = 0
    /\ entities_created_ = 0
    /\ component_types_ = EmptyMap
    /\ next_component_type_ = 0
    /\ component_arrays_ = [T \in Types |-> EmptyArray]
    /\ systems_ = {}
    /\ system_signatures_ = [S \in SystemTypes |-> {}]
    /\ entities = [S \in SystemTypes |-> {}]
    /\ ub = FALSE
    /\ calls = 0
    /\ last = [op |-> "World", entity |-> NULL_ENTITY, before |-> {}]
    /\ ret = NULL_ENTITY
    /\ thrown = FALSE
    /\ hooks = NoHooks
    /\ seen = NoView
    /\ answer = NoAnswer
    /\ initialized_ = FALSE
    /\ destroyed = <<>>
    /\ hook_bodies = NoBodies
    /\ delivered = NoCalls
    /\ phase = [S \in SystemTypes |-> "none"]
    /\ tally = [creates |-> 0, destroys |-> 0]

NextReentrant ==
    \/ create_entity
    \/ \E S \in SystemTypes, a \in HookBodies, r \in HookBodies :
          register_system_with_hooks(S, a, r)
    \/ \E S \in SystemTypes, sig \in Signatures : set_system_signature(S, sig)
    \/ \E e \in Entities, T \in Types : component_call("add_component", e, T)
    \/ \E e \in Entities, T \in Types : component_call("remove_component", e, T)

SpecReentrant == InitReentrant /\ [][NextReentrant]_vars

\* ======================================================== signature width
\* The World with one component kind more than a Signature has bits, and the
\* calls that register kinds and change signatures.
InitMask ==
    /\ available_entities_ = [i \in 1..(MAX_ENTITIES - 1) |-> i]
    /\ signatures_ = EmptyMap
    /\ living_entity_count_ = 0
    /\ entities_created_ = 0
    /\ component_types_ = EmptyMap
    /\ next_component_type_ = 0
    /\ component_arrays_ = [T \in MaskTypes |-> EmptyArray]
    /\ systems_ = {}
    /\ system_signatures_ = [S \in Systems |-> {}]
    /\ entities = [S \in Systems |-> {}]
    /\ ub = FALSE
    /\ calls = 0
    /\ last = [op |-> "World", entity |-> NULL_ENTITY, before |-> {}]
    /\ ret = NULL_ENTITY
    /\ thrown = FALSE
    /\ hooks = NoHooks
    /\ seen = NoView
    /\ answer = NoAnswer
    /\ initialized_ = FALSE
    /\ destroyed = <<>>
    /\ hook_bodies = NoBodies
    /\ delivered = NoCalls
    /\ phase = [S \in SystemTypes |-> "none"]
    /\ tally = [creates |-> 0, destroys |-> 0]

NextMask ==
    \/ create_entity
    \/ \E T \in MaskTypes : register_component(T)
    \/ \E e \in EntityIds, T \in MaskTypes : add_component(e, T, DefaultPayload)
    \/ \E e \in EntityIds, T \in MaskTypes : remove_component(e, T)

SpecMask == InitMask /\ [][NextMask]_vars

\* ================================================================= claims
\* The entities that are alive (EntityManager::is_valid).
Alive == {e \in Entities : is_valid(e)}
\* The required signature {A, B}: the bits of both component kinds.
FullSignature == 0..(Cardinality(Types) - 1)
\* How often the last call invoked hook kind on system S for entity e.
HookCount(kind, S, e) == hooks[<<kind, S, e>>]
\* The last call invoked, on system S, exactly the hooks of the set fired,
\* each once.
HooksOnAre(S, fired) ==
    \A h \in DOMAIN hooks :
        h[2] = S => hooks[h] = (IF <<h[1], h[3]>> \in fired THEN 1 ELSE 0)

\* C1 (original claim, refuted by the code): has_component<T>(e) is true if
\* and only if the bit of T is set in get_signature(e), for every entity e,
\* alive or not, and every component kind T.
C1_SignatureConsistency ==
    \A e \in Entities, T \in Types :
        has_component(T, e) <=> (get_component_type(T) \in get_signature(e))

\* C2 (original claim, refuted by the code): for every registered system S
\* and every alive entity e, e is in S's membership set if and only if
\* (signature(e) & signature(S)) == signature(S).
C2_MembershipInvariant ==
    \A S \in systems_, e \in Alive :
        (e \in entities[S]) <=> signature_matches(get_signature(e), S)

\* The dense-array invariant of one ComponentArray.
DenseArray(arr) ==
    /\ DOMAIN arr.index_to_entity_map_ = 0..(arr.size_ - 1)
    /\ DOMAIN arr.index_to_entity_map_ \subseteq DOMAIN arr.component_array_
    /\ arr.size_ = Cardinality(DOMAIN arr.entity_to_index_map_)
    /\ \A e \in DOMAIN arr.entity_to_index_map_ :
          /\ arr.entity_to_index_map_[e] \in DOMAIN arr.index_to_entity_map_
          /\ arr.index_to_entity_map_[arr.entity_to_index_map_[e]] = e
    /\ \A i \in DOMAIN arr.index_to_entity_map_ :
          /\ arr.index_to_entity_map_[i] \in DOMAIN arr.entity_to_index_map_
          /\ arr.entity_to_index_map_[arr.index_to_entity_map_[i]] = i

\* C3 (original claim, refuted by the code): after any sequence of insert,
\* remove and entity-destroyed calls the occupied slots of every array are
\* exactly 0..size-1, size is the number of entities holding the kind, and
\* the two maps are exact inverses with no other entry.
C3_DenseArrayInvariant ==
    \A T \in Types : DenseArray(component_arrays_[T])

\* C4: remove(e) for an entity e holding T decreases size by one, makes
\* has(e) false, moves the entity of the last slot into e's slot, leaves
\* every other entity in its slot, and leaves the payload of every entity
\* other than e as it was.
C4_SwapRemoval ==
    [][\A e \in Entities :
        (ArrayRemove(e) /\ has_data(TheArray, e)) =>
            LET arr == TheArray
                after == TheArray'
                slot == arr.entity_to_index_map_[e]
                moved == arr.index_to_entity_map_[arr.size_ - 1]
                others == (DOMAIN arr.entity_to_index_map_) \ {e}
            IN  /\ size(after) = size(arr) - 1
                /\ ~has_data(after, e)
                /\ DOMAIN after.entity_to_index_map_ = others
                /\ moved # e =>
                      /\ after.entity_to_index_map_[moved] = slot
                      /\ after.index_to_entity_map_[slot] = moved
                /\ \A x \in others \ {moved} :
                      /\ after.entity_to_index_map_[x] = arr.entity_to_index_map_[x]
                      /\ after.index_to_entity_map_[arr.entity_to_index_map_[x]] = x
                /\ \A x \in others :
                      /\ ~get_data_throws(after, x)
                      /\ get_data(after, x) = get_data(arr, x)
      ]_vars

\* C4 witness: a removal has left MAX_ENTITIES - 1 entities with different
\* payloads in a full array, the vacated last slot still holding the payload
\* that was moved into the removed entity's slot.
C4_Witness ==
    /\ last.op = "remove_data"
    /\ size(TheArray) = MAX_ENTITIES - 1
    /\ TheArray.component_array_[MAX_ENTITIES - 1] # DefaultPayload
    /\ \E i \in 0..(MAX_ENTITIES - 2) :
          /\ TheArray.component_array_[i] = TheArray.component_array_[MAX_ENTITIES - 1]
          /\ \E j \in 0..(MAX_ENTITIES - 2) :
                TheArray.component_array_[j] # TheArray.component_array_[i]

\* C5: destroy_entity(e) on an alive e leaves e in no system's membership
\* set, has_component<T>(e) false for every registered kind T, an empty
\* get_signature(e), and e as the identifier the next create_entity returns.
C5_DestructionCascade ==
    [][\A e \in Entities :
        (destroy_entity(e) /\ is_valid(e)) =>
            /\ \A S \in Systems : e \notin entities'[S]
            /\ \A T \in DOMAIN component_types_ :
                  /\ ~has_component_throws(T)'
                  /\ ~has_component(T, e)'
            /\ get_signature(e)' = {}
            /\ signatures_'[e] = {}
            /\ available_entities_' # <<>>
            /\ Back(available_entities_') = e
      ]_vars

\* C5 witness: with both component kinds registered, destroy_entity was
\* applied to an entity that held exactly one of them and was a member of
\* S1; it is now outside S1, holds nothing and is first in line for reuse.
C5_Witness ==
    /\ last.op = "destroy_entity"
    /\ DOMAIN component_types_ = Types
    /\ Cardinality(last.before) = 1
    /\ "S1" \in systems_
    /\ HooksOnAre("S1", {<<"entity_removed", last.entity>>})
    /\ last.entity \notin entities["S1"]
    /\ \A T \in Types : ~has_component(T, last.entity)
    /\ Back(available_entities_) = last.entity

\* C6 (original claim, refuted by the code): add_component<T>(e, v) and
\* remove_component<T>(e) with an entity e that is not alive change no
\* component store, no signature and no membership set, and fire no hook.
C6_InvalidEntityNoOp ==
    [][\A e \in Entities, T \in Types :
        (/\ ~is_valid(e)
         /\ \/ \E v \in WorldPayloads : add_component(e, T, v)
            \/ remove_component(e, T)) =>
            /\ UNCHANGED <<component_arrays_, signatures_, entities>>
            /\ hooks' = NoHooks
      ]_vars

\* C7: at every point the living entity count equals the number of creates
\* that returned a non-null entity minus the number of destroys applied to
\* an alive entity.
C7_Conservation ==
    get_living_entity_count = tally.creates - tally.destroys

\* C7 witness: three creates and one destroy have left two entities alive.
C7_Witness ==
    /\ tally.creates = 3
    /\ tally.destroys = 1
    /\ get_living_entity_count = 2

\* C8: create_entity never returns an identifier that is alive at the time of
\* the call; the living count is the number of distinct alive identifiers;
\* the null entity is never alive.
C8_Uniqueness ==
    [][/\ EntityManagerCreate =>
             (ret' # NULL_ENTITY => (ret' \notin Alive /\ ret' \in Alive'))
       /\ get_living_entity_count' = Cardinality(Alive')
       /\ NULL_ENTITY \notin Alive'
      ]_vars

\* C8 witness: create_entity has returned a recycled identifier while another
\* entity is alive.
C8_Witness ==
    /\ last.op = "create_entity"
    /\ ret # NULL_ENTITY
    /\ tally.destroys >= 1
    /\ Cardinality(Alive) = 2

\* C9 (original claim, refuted by the code): create_entity returns a non-null
\* identifier whenever fewer than MAX_ENTITIES entities are alive, and with
\* MAX_ENTITIES alive it returns the null entity and changes nothing.
C9_CapacityOriginal ==
    [][EntityManagerCreate =>
          IF Cardinality(Alive) < MAX_ENTITIES
          THEN ret' # NULL_ENTITY
          ELSE ret' = NULL_ENTITY /\ UNCHANGED emVars
      ]_vars

\* C9 (amended): create_entity returns a non-null identifier whenever fewer
\* than MAX_ENTITIES - 1 entities are alive, and with MAX_ENTITIES - 1 alive
\* it returns the null entity and leaves the living count, the created
\* count, the free list and all signatures unchanged.
C9_Capacity ==
    [][EntityManagerCreate =>
          IF Cardinality(Alive) < MAX_ENTITIES - 1
          THEN ret' # NULL_ENTITY
          ELSE ret' = NULL_ENTITY /\ UNCHANGED emVars
      ]_vars

\* C9 witness: create_entity has returned the null entity with
\* MAX_ENTITIES - 1 entities alive.
C9_Witness ==
    /\ last.op = "create_entity"
    /\ ret = NULL_ENTITY
    /\ Cardinality(Alive) = MAX_ENTITIES - 1
    /\ available_entities_ = <<>>

\* C10: for a registered system S requiring {A, B} and an alive entity e
\* outside S, an attach after which e holds only one of A, B fires no hook on
\* S and leaves e outside S; the attach of the second missing kind makes e a
\* member and fires on_entity_added(e) on S exactly once; removing either
\* kind from a member holding both makes e a non-member and fires
\* on_entity_removed(e) on S exactly once.
C10_MembershipConvergence ==
    [][\A e \in Entities, T \in Types, S \in Systems :
        (is_valid(e) /\ S \in systems_ /\ system_signature(S) = FullSignature) =>
            /\ (/\ \E v \in WorldPayloads : add_component(e, T, v)
                /\ e \notin entities[S]
                /\ get_signature(e) # FullSignature) =>
                   IF get_signature(e)' = FullSignature
                   THEN /\ e \in entities'[S]
                        /\ HooksOnAre(S, {<<"entity_added", e>>})'
                   ELSE /\ e \notin entities'[S]
                        /\ HooksOnAre(S, {})'
            /\ (/\ remove_component(e, T)
                /\ e \in entities[S]
                /\ get_signature(e) = FullSignature) =>
                   /\ e \notin entities'[S]
                   /\ HooksOnAre(S, {<<"entity_removed", e>>})'
      ]_vars

\* C10 witness: with S1 requiring {A, B}, remove_component was applied to an
\* alive entity that held both kinds; it now holds one, is outside S1, and
\* on_entity_removed was fired on S1 for it once.
C10_Witness ==
    /\ last.op = "remove_component"
    /\ "S1" \in systems_
    /\ system_signature("S1") = FullSignature
    /\ last.before = FullSignature
    /\ last.entity \in Alive
    /\ Cardinality(get_signature(last.entity)) = 1
    /\ last.entity \notin entities["S1"]
    /\ HooksOnAre("S1", {<<"entity_removed", last.entity>>})

\* C11 (original claim, refuted by the code): for every system S and entity
\* e the hooks S receives for e alternate on_entity_added, on_entity_removed,
\* starting with on_entity_added, and e is a member of S exactly when the
\* last hook was on_entity_added: a call fires at most one hook for the pair,
\* on_entity_added only for a non-member that becomes a member,
\* on_entity_removed only for a member that stops being one, and membership
\* changes with no other call; re-attaching a kind e already holds, or
\* removing a kind e lacks, fires no hook.
C11_HookStateMachine ==
    [][/\ \A S \in Systems, e \in Entities :
            /\ HookCount("entity_added", S, e)' + HookCount("entity_removed", S, e)' <= 1
            /\ HookCount("entity_added", S, e)' = 1 <=>
                  (e \notin entities[S] /\ e \in entities'[S])
            /\ HookCount("entity_removed", S, e)' = 1 <=>
                  (e \in entities[S] /\ e \notin entities'[S])
       /\ \A e \in Entities, T \in Types :
            /\ (has_component(T, e) /\ \E v \in WorldPayloads : add_component(e, T, v))
                  => hooks' = NoHooks
            /\ (~has_component(T, e) /\ remove_component(e, T))
                  => hooks' = NoHooks
      ]_vars

\* C12 (original claim, refuted by the code): whenever add_component<T>(e, v)
\* fires on_entity_added(e) on a system S, the hook finds the payload v
\* stored (get_component<T>(e) returns v), e holding every kind S requires,
\* and the bit of T set in get_signature(e).
C12_AddComponentOrdering ==
    [][\A e \in Entities, T \in Types, v \in WorldPayloads, S \in Systems :
        (add_component(e, T, v) /\ ~ub' /\ HookCount("entity_added", S, e)' = 1) =>
            /\ seen'.payload = v
            /\ system_signature(S) \subseteq seen'.holds
            /\ get_component_type(T) \in seen'.signature
      ]_vars

\* C13 (original claim, refuted by the code): destroy_entity(e) on an alive e
\* drops e's data from every store, then drops e from every system firing
\* on_entity_removed(e), then resets the signature and last returns the
\* identifier to the free list: on_entity_removed(e) finds no data of e, the
\* signature e had before the call, and is_valid(e) true.
C13_DestroyOrdering ==
    [][\A e \in Entities :
        (destroy_entity(e) /\ is_valid(e)) =>
            /\ \A S \in systems_ :
                  e \in entities[S] => HookCount("entity_removed", S, e)' = 1
            /\ hooks' # NoHooks =>
                  /\ seen'.holds = {}
                  /\ seen'.signature = get_signature(e)
                  /\ seen'.valid
            /\ get_signature(e)' = {}
            /\ e \in Range(available_entities_')
      ]_vars

\* C14 (original claim, refuted by the code): get_component<T>(e) raises an
\* error whenever e does not hold T, whether or not T was ever registered and
\* whether or not e is alive, and the failed read assigns no kind index and
\* modifies no store, signature or membership set.
C14_MissingComponentFault ==
    [][\A e \in Entities, T \in Types :
        (World_get_component(e, T) /\ ~has_data(component_arrays_[T], e)) =>
            /\ thrown'
            /\ UNCHANGED <<component_types_, next_component_type_>>
            /\ UNCHANGED <<component_arrays_, signatures_, entities>>
      ]_vars

\* C15 (original claim, refuted by the code): has_component<T>(e) returns a
\* boolean without raising an error for every entity e and every kind T,
\* registered or never registered, returns true exactly when e holds T, and
\* changes no state.
C15_HasComponentNeverFaults ==
    [][\A e \in Entities, T \in Types :
        World_has_component(e, T) =>
            /\ ~thrown'
            /\ answer'.has = has_data(component_arrays_[T], e)
            /\ UNCHANGED <<emVars, cmVars, smVars>>
      ]_vars

\* C16: set_system_signature<S>(sig) raises an error when S has not been
\* registered, and then stores no signature and changes no system,
\* membership set or other state; when S is registered the call succeeds and
\* binds sig to S, changing nothing else.
C16_UnregisteredSystemFault ==
    [][\A S \in Systems, sig \in Signatures :
        set_system_signature(S, sig) =>
            IF S \notin systems_
            THEN /\ thrown'
                 /\ UNCHANGED <<emVars, cmVars, smVars>>
                 /\ hooks' = NoHooks
            ELSE /\ ~thrown'
                 /\ system_signature(S)' = sig
                 /\ UNCHANGED <<emVars, cmVars, systems_, entities>>
                 /\ hooks' = NoHooks
      ]_vars

\* C16 witness: set_system_signature has thrown for a system that is not
\* registered, in a World that already has an alive entity holding a
\* component; the signature of the system is still the default.
C16_Witness ==
    /\ last.op = "set_system_signature"
    /\ thrown
    /\ "S1" \notin systems_
    /\ system_signature("S1") = {}
    /\ \E e \in Alive : get_signature(e) # {}

\* C17: register_system<S>() for an S that is already registered creates no
\* second instance: the system count, S's required signature and S's
\* membership set (the state of the instance) are unchanged, and no hook
\* fires.
C17_RegisterSystemIdempotent ==
    [][\A S \in Systems :
        (register_system(S) /\ S \in systems_) =>
            /\ systems_' = systems_
            /\ Cardinality(systems_') = Cardinality(systems_)
            /\ system_signature(S)' = system_signature(S)
            /\ entities'[S] = entities[S]
            /\ hooks' = NoHooks
      ]_vars

\* C17 witness: register_system has returned for a system that has a
\* required signature and a member, which only a system registered earlier
\* can have.
C17_Witness ==
    /\ last.op = "register_system"
    /\ "S1" \in systems_
    /\ system_signature("S1") # {}
    /\ entities["S1"] # {}

\* The payloads stored in the array of kind T, by entity.
StoredData(T) ==
    [x \in DOMAIN component_arrays_[T].entity_to_index_map_ |->
        get_data(component_arrays_[T], x)]

\* C18: the first registration of a payload type gives it the index equal to
\* the number of kinds registered before it, distinct types never share an
\* index, a binding once made never changes, and a later registration of T,
\* explicit or implicit through add_component, remove_component,
\* get_component or get_component_type, leaves all stored T data unchanged
\* (apart from the one entry an add_component or remove_component is about).
C18_RegistrationAppendOnly ==
    [][/\ \A T \in DOMAIN component_types_ :
            /\ T \in DOMAIN component_types_'
            /\ component_types_'[T] = component_types_[T]
       /\ \A T \in (DOMAIN component_types_') \ (DOMAIN component_types_) :
            component_types_'[T] = Cardinality(DOMAIN component_types_)
       /\ \A T, U \in DOMAIN component_types_' :
            component_types_'[T] = component_types_'[U] => T = U
       /\ \A T \in DOMAIN component_types_ :
            /\ last'.op \in {"register_component", "get_component_type", "get_component"}
                  => StoredData(T)' = StoredData(T)
            /\ (last'.op \in {"add_component", "remove_component"} /\ ~ub')
                  => \A x \in (DOMAIN StoredData(T)) \ {last'.entity} :
                        /\ x \in DOMAIN StoredData(T)'
                        /\ StoredData(T)'[x] = StoredData(T)[x]
      ]_vars

\* C18 witness: register_component has returned with both kinds bound to
\* different indexes and both arrays holding data, which an array created by
\* that call could not.
C18_Witness ==
    /\ last.op = "register_component"
    /\ DOMAIN component_types_ = Types
    /\ \A T \in Types : size(component_arrays_[T]) > 0
    /\ component_types_["A"] # component_types_["B"]

\* C19: destroy_entity(e) for an e that is not alive (null, out of range,
\* never created or already destroyed) leaves the living count, the free
\* list, all signatures, all component stores and all membership sets
\* unchanged and fires no hook.
C19_DestroyNonAliveNoOp ==
    [][\A e \in Entities :
        (destroy_entity(e) /\ ~is_valid(e)) =>
            /\ UNCHANGED <<living_entity_count_, available_entities_, signatures_>>
            /\ UNCHANGED <<component_arrays_, entities>>
            /\ UNCHANGED <<emVars, cmVars, smVars>>
            /\ hooks' = NoHooks
      ]_vars

\* C19 witness: destroy_entity was applied to an identifier that was created
\* and destroyed before and that still has component data and a membership:
\* data and membership have stayed.
C19_Witness ==
    /\ last.op = "destroy_entity"
    /\ last.entity \in EntityIds
    /\ ~is_valid(last.entity)
    /\ tally.destroys >= 1
    /\ has_component("A", last.entity)
    /\ last.entity \in entities["S1"]

\* C20: is_valid(e) is false for 0 and for every e >= MAX_ENTITIES; for every
\* other e it is false at first, becomes true with the create_entity call
\* that returns e, stays true until the next destroy_entity(e), and is false
\* from then until a later create_entity returns e.
C20_HandleLiveness ==
    /\ \A e \in Entities : ~is_valid(e)
    /\ [][/\ ~is_valid(NULL_ENTITY)'
          /\ \A e \in Entities : e >= MAX_ENTITIES => ~is_valid(e)'
          /\ \A e \in EntityIds :
                is_valid(e)' =
                    IF EntityManagerCreate /\ ret' = e THEN TRUE
                    ELSE IF EntityManagerDestroy(e) THEN FALSE
                    ELSE is_valid(e)
         ]_vars

\* C20 witness: create_entity has returned an identifier that was destroyed
\* before, while the other identifier is not alive.
C20_Witness ==
    /\ last.op = "create_entity"
    /\ ret \in EntityIds
    /\ is_valid(ret)
    /\ tally.creates = 3
    /\ tally.destroys = 2
    /\ \E e \in EntityIds : ~is_valid(e)

\* How often identifier e appears in the free list.
FreeCount(e) ==
    Cardinality({i \in DOMAIN available_entities_ : available_entities_[i] = e})

\* C21: at every point every identifier in 1..MAX_ENTITIES-1 is either alive
\* or appears exactly once in the free list, never both and never twice, the
\* free list holds nothing else, and the living count plus the free-list
\* length is constant.
C21_FreeListExclusivity ==
    /\ \A e \in EntityIds : FreeCount(e) = (IF is_valid(e) THEN 0 ELSE 1)
    /\ Range(available_entities_) \subseteq EntityIds
    /\ NULL_ENTITY \notin Alive /\ MAX_ENTITIES \notin Alive
    /\ get_living_entity_count = Cardinality(Alive)
    /\ get_living_entity_count + Len(available_entities_) = MAX_ENTITIES - 1

\* C21 witness: after creates and destroys one identifier is alive and the
\* other, destroyed and recycled in between, is back in the free list.
C21_Witness ==
    /\ tally.creates = 3
    /\ tally.destroys = 2
    /\ get_living_entity_count = 1
    /\ Len(available_entities_) = 1

\* The last call invoked update(dt) exactly once on every system of the set
\* registered and on no other.
UpdatedOnce(registered, dt) ==
    /\ \A S \in SystemTypes :
          delivered.count[<<"update", S>>] = (IF S \in registered THEN 1 ELSE 0)
    /\ registered # {} => delivered.delta_time = dt

\* C22 (original claim, refuted by the code): every call of World.update(dt)
\* invokes update(dt) exactly once on every system registered at that time.
C22_UpdateFanOutOriginal ==
    [][\A dt \in DeltaTimes : update(dt) => UpdatedOnce(systems_, dt)']_vars

\* C22 (amended): every call of World.update(dt) made while the World is
\* initialized (after init(), before shutdown()) invokes update(dt) exactly
\* once on every system registered at that time; a call made while the World
\* is not initialized invokes update on no system.
C22_UpdateFanOut ==
    [][\A dt \in DeltaTimes :
          update(dt) =>
              IF initialized_
              THEN UpdatedOnce(systems_, dt)'
              ELSE delivered' = NoCalls
      ]_vars

\* C22 witness: update has been invoked once on each of two registered
\* systems.
C22_Witness ==
    /\ last.op = "update"
    /\ systems_ = SystemTypes
    /\ Cardinality(systems_) = 2
    /\ \A S \in systems_ : delivered.count[<<"update", S>>] = 1
    /\ delivered.delta_time = MaxDeltaTime

\* C27 (original claim, refuted by the code): every registered system
\* receives init() before its first update(dt), and receives no update(dt)
\* after its shutdown() unless init() was delivered to it again in between:
\* whenever update(dt) is invoked on a system, the last of init() and
\* shutdown() that system received is init().
C27_LifecycleOrdering ==
    [][\A S \in SystemTypes :
          delivered'.count[<<"update", S>>] >= 1 => phase[S] = "init"
      ]_vars

\* C23 (original claim, refuted by the code): insert(e, v) when e already
\* holds T replaces only e's payload, leaving size, e's slot, both index maps
\* and every other entity's payload unchanged; when e does not hold T, v is
\* stored at the slot whose index is the old size and size grows by exactly
\* one.
C23_InsertOverwrites ==
    [][\A e \in Entities, v \in Payloads :
        ArrayInsert(e, v) =>
            LET arr == TheArray
                after == TheArray'
            IN  IF has_data(arr, e)
                THEN /\ size(after) = size(arr)
                     /\ after.entity_to_index_map_ = arr.entity_to_index_map_
                     /\ after.index_to_entity_map_ = arr.index_to_entity_map_
                     /\ get_data(after, e) = v
                     /\ \A x \in (DOMAIN arr.entity_to_index_map_) \ {e} :
                           get_data(after, x) = get_data(arr, x)
                ELSE /\ size(after) = size(arr) + 1
                     /\ has_data(after, e)
                     /\ after.entity_to_index_map_[e] = size(arr)
                     /\ size(arr) \in DOMAIN after.index_to_entity_map_
                     /\ after.index_to_entity_map_[size(arr)] = e
                     /\ size(arr) \in DOMAIN after.component_array_
                     /\ after.component_array_[size(arr)] = v
      ]_vars

\* C24 (original claim, refuted by the code): immediately after
\* create_entity() returns a non-null e, fresh or recycled and whatever calls
\* came before, get_signature(e) is empty, has_component<T>(e) is false for
\* every kind T, and e is in no system's membership set.
C24_NewEntityBlank ==
    [][\A e \in Entities :
        (create_entity /\ ret' = e /\ e # NULL_ENTITY) =>
            /\ is_valid(e)'
            /\ get_signature(e)' = {}
            /\ \A T \in Types : ~has_component(T, e)'
            /\ \A S \in Systems : e \notin entities'[S]
      ]_vars

\* C25 (original claim, refuted by the code): after destroy_entity(e) on an
\* alive e, the very next create_entity() that returns an entity returns e,
\* and e is valid again.
C25_ImmediateReuseOriginal ==
    [][\A e \in Entities :
        (EntityManagerCreate /\ ret' # NULL_ENTITY /\ e \in Range(destroyed)) =>
            /\ ret' = e
            /\ is_valid(e)'
      ]_vars

\* C25 (amended): after destroy_entity(e) on an alive e, the next
\* create_entity() returns e provided no other alive entity was destroyed in
\* between (create_entity returns the most recently destroyed identifier);
\* from then on is_valid(e) is true again, so a handle to e captured before
\* the destroy addresses the new entity.
C25_ImmediateReuse ==
    [][/\ \A e \in Entities :
            (EntityManagerDestroy(e) /\ is_valid(e)) =>
                /\ ~is_valid(e)'
                /\ Back(destroyed') = e
       /\ destroyed # <<>> =>
            /\ ~is_valid(Back(destroyed))
            /\ EntityManagerCreate =>
                  /\ ret' = Back(destroyed)
                  /\ \A e \in Entities : e = ret' => is_valid(e)'
      ]_vars

\* C25 witness: two entities were destroyed, the second was returned by the
\* next create_entity and the first by the one after it.
C25_Witness ==
    /\ last.op = "create_entity"
    /\ tally.creates = 3
    /\ tally.destroys = 2
    /\ get_living_entity_count = 1
    /\ destroyed = <<>>
    /\ ret \in Alive

\* The last call fired a hook whose body called back into the World.
Reentered ==
    \E h \in DOMAIN hooks :
        hooks[h] > 0 /\ hook_bodies[<<h[1], h[2]>>].op # "none"

\* C26 (refuted by the code): when an add_component or remove_component call
\* whose hooks called add_component or remove_component on the same entity
\* has returned, every registered system holds the entity exactly when the
\* entity's final signature matches the system's required signature,
\* whatever the iteration order of the systems.
C26_ReentrantHooks ==
    (last.op \in {"add_component", "remove_component"} /\ Reentered /\ ~ub) =>
        \A S \in systems_ :
            (last.entity \in entities[S])
                <=> signature_matches(get_signature(last.entity), S)

\* C28 (refuted by the code): for every component kind, whatever World
\* operations were called with whatever entity ids, the number of occupied
\* slots is at most MAX_ENTITIES and no insert has written past the
\* backing array.
C28_DenseArrayCapacity ==
    /\ ~ub
    /\ \A T \in Types : size(component_arrays_[T]) <= MAX_ENTITIES

\* C30: a registered system whose required signature is empty (the default
\* of a signature that was never set) requires no components: every
\* add_component or remove_component on an alive entity leaves the entity a
\* member of it, with entity_added fired once when the entity was not a
\* member yet and no entity_removed; and a member stays a member in every step
\* that is not destroy_entity of that entity, as long as the required
\* signature stays empty.
C30_DefaultSignature ==
    [][\A S \in Systems, e \in Entities :
        (S \in systems_ /\ system_signature(S) = {} /\ ~ub') =>
            /\ (/\ last'.op \in {"add_component", "remove_component"}
                /\ last'.entity = e
                /\ is_valid(e)) =>
                  /\ e \in entities'[S]
                  /\ hooks'[<<"entity_added", S, e>>] =
                        IF e \in entities[S] THEN 0 ELSE 1
                  /\ hooks'[<<"entity_removed", S, e>>] = 0
            /\ (/\ e \in entities[S]
                /\ system_signature(S)' = {}
                /\ ~(last'.op = "destroy_entity" /\ last'.entity = e)) =>
                  e \in entities'[S]
      ]_vars

\* C30 witness: remove_component on an alive entity without components has
\* made it a member of a system whose required signature is empty, and
\* entity_added was fired once.
C30_Witness ==
    /\ last.op = "remove_component"
    /\ is_valid(last.entity)
    /\ get_signature(last.entity) = {}
    /\ \E S \in systems_ :
          /\ system_signature(S) = {}
          /\ last.entity \in entities[S]
          /\ hooks[<<"entity_added", S, last.entity>>] = 1

\* The component kinds that are registered, and their types.
Registered == DOMAIN component_types_
TypesOfOthers(T) == {component_types_[U] : U \in Registered \ {T}}

\* C29: register_component is never rejected, however many kinds are
\* registered: the kind registered after n others gets type n, also for
\* n >= MAX_COMPONENTS; and add_component of a kind whose type is
\* MAX_COMPONENTS or more leaves an alive entity with a signature that does
\* not tell the kind apart: the bit it sets is the bit of another registered
\* kind, or no bit is set at all.
C29_MaskWidthUnchecked ==
    [][\A T \in MaskTypes :
        /\ register_component(T) =>
              /\ ~thrown'
              /\ T \in Registered'
              /\ T \notin Registered =>
                    component_types_'[T] = Cardinality(Registered)
        /\ \A e \in EntityIds :
              (/\ add_component(e, T, DefaultPayload)
               /\ is_valid(e)
               /\ get_component_type(T) >= MAX_COMPONENTS) =>
                  \/ get_signature(e)' = get_signature(e)
                  \/ \E b \in TypesOfOthers(T)' :
                        get_signature(e)' = get_signature(e) \cup {b}
      ]_vars

\* C29 witness: MAX_COMPONENTS + 1 kinds are registered, and add_component of
\* the kind with type MAX_COMPONENTS has set, on an alive entity that holds
\* no other component, the bit of the kind with type 0.
C29_Witness ==
    /\ last.op = "add_component"
    /\ is_valid(last.entity)
    /\ next_component_type_ = MAX_COMPONENTS + 1
    /\ get_signature(last.entity) = {0}
    /\ \A T \in Registered :
          has_data(component_arrays_[T], last.entity)
              <=> component_types_[T] = MAX_COMPONENTS

====
